---------------------------- MODULE Spec2Model ----------------------------
(***************************************************************************)
(* Model of functions.py: dataset_preparation, approximate_ts and          *)
(* moving_average.  Each function is walked statement by statement; the    *)
(* dataframe and array primitives it calls (Spark SQL, NumPy) are modelled *)
(* by what they compute on small tables and arrays.                        *)
(*                                                                         *)
(* Real numbers are exact rationals <<numerator, denominator>> in lowest   *)
(* terms (float64 rounding is abstracted away).                            *)
(***************************************************************************)
EXTENDS Integers, Sequences, FiniteSets, TLC

VARIABLES
    pc,             \* position inside the function being executed
    raised,         \* "none", or the exception that ended the call
    arr,            \* moving_average: argument arr
    window_size,    \* moving_average: argument window_size
    padded_arr,     \* moving_average: local padded_arr
    moving_avg,     \* moving_average: local moving_avg
    df,             \* approximate_ts: argument df, rebound at line 59
    features,       \* approximate_ts: argument features
    timesteps,      \* approximate_ts: argument timesteps
    label,          \* approximate_ts: argument label
    res,            \* approximate_ts: local res
    files,          \* dataset_preparation: the three CSV files of the run
    pvs_df_left,    \* dataset_preparation: local pvs_df_left
    pvs_df_right,   \* dataset_preparation: local pvs_df_right
    pvs_labels,     \* dataset_preparation: local pvs_labels
    pvs_df,         \* dataset_preparation: local pvs_df
    ret             \* the value returned by the call

maVars == <<arr, window_size, padded_arr, moving_avg>>
apVars == <<df, features, timesteps, label, res>>
prepVars == <<files, pvs_df_left, pvs_df_right, pvs_labels, pvs_df>>
vars == <<pc, raised, maVars, apVars, prepVars, ret>>

\* ------------------------------------------------------------------ bounds
MaxLen == 4         \* longest arr drawn
MaxVal == 3         \* arr elements are drawn from 1..MaxVal
MaxWindow == 6      \* largest window_size drawn
MaxN == 3           \* most rows of a table passed to approximate_ts
MaxTimesteps == 3   \* largest timesteps argument drawn
MaxRows == 2        \* most rows of a CSV file read by dataset_preparation

NULL == "NULL"      \* SQL NULL / Python None

\* ------------------------------------------------------- rational numbers
RECURSIVE GCD(_, _)
GCD(a, b) == IF b = 0 THEN a ELSE GCD(b, a % b)

Abs(x) == IF x < 0 THEN -x ELSE x

\* the rational n/d (d > 0) in lowest terms
Rat(n, d) == LET g == GCD(Abs(n), d) IN <<n \div g, d \div g>>

RatAdd(p, q) == Rat(p[1] * q[2] + q[1] * p[2], p[2] * q[2])

RatMul(p, q) == Rat(p[1] * q[1], p[2] * q[2])

RECURSIVE SumSeq(_)
SumSeq(s) == IF s = <<>> THEN 0 ELSE Head(s) + SumSeq(Tail(s))

\* ---------------------------------------------------------- moving_average
\* np.pad(mode='reflect'): one pass of _set_reflect_both over the area
\* filled so far (valid), for an original array of length period.
ReflectOldLength(valid, period) ==
    (((Len(valid) - 1) \div (period - 1)) * (period - 1) + 1) - 1

LeftChunk(valid, c) == [k \in 1..c |-> valid[c + 2 - k]]

RightChunk(valid, c) == [k \in 1..c |-> valid[Len(valid) - k]]

RECURSIVE SetReflectBoth(_, _, _, _)
SetReflectBoth(valid, left_pad, right_pad, period) ==
    IF left_pad <= 0 /\ right_pad <= 0 THEN valid
    ELSE LET old_length == ReflectOldLength(valid, period)
             cl == IF left_pad > 0
                   THEN (IF old_length < left_pad THEN old_length ELSE left_pad)
                   ELSE 0
             cr == IF right_pad > 0
                   THEN (IF old_length < right_pad THEN old_length ELSE right_pad)
                   ELSE 0
         IN SetReflectBoth(LeftChunk(valid, cl) \o valid \o RightChunk(valid, cr),
                           left_pad - cl, right_pad - cr, period)

\* faulty variant: mode='symmetric', which repeats the edge element
NpPadSymmetric(a, p) ==
    [k \in 1..p |-> a[((p - k) % Len(a)) + 1]] \o a
        \o [k \in 1..p |-> a[Len(a) - ((k - 1) % Len(a))]]

\* np.pad(a, (p, p), mode='reflect') for a 1-D array and p >= 0.  A
\* one-element axis is extended with its edge value (NumPy legacy rule).
NpPadReflect(a, p) ==
    IF Len(a) = 0 THEN a
    ELSE IF Len(a) = 1 THEN [k \in 1..(2 * p + 1) |-> a[1]]
    ELSE SetReflectBoth(a, p, p, Len(a))

\* np.ones(w) / w
UniformKernel(w) == [k \in 1..w |-> Rat(1, w)]

\* np.convolve(a, v, mode='valid') for non-empty a, v: the shorter operand
\* is slid (reversed) over the longer one.
RECURSIVE DotRev(_, _, _, _)
DotRev(long, short, i, k) ==
    IF k > Len(short) THEN Rat(0, 1)
    ELSE RatAdd(RatMul(long[i + k - 1], short[Len(short) + 1 - k]),
                DotRev(long, short, i, k + 1))

NpConvolveValid(a, v) ==
    LET long == IF Len(v) > Len(a) THEN v ELSE a
        short == IF Len(v) > Len(a) THEN a ELSE v
    IN [i \in 1..(Len(long) - Len(short) + 1) |-> DotRev(long, short, i, 1)]

\* faulty variant: the whole convolution is returned
KeepAll(s) == s

\* moving_avg[:-1]
DropLast(s) == IF Len(s) = 0 THEN s ELSE SubSeq(s, 1, Len(s) - 1)

AsRats(a) == [k \in 1..Len(a) |-> Rat(a[k], 1)]

RECURSIVE SeqsOfLen(_, _)
SeqsOfLen(S, n) ==
    IF n = 0 THEN {<<>>}
    ELSE {Append(s, x) : s \in SeqsOfLen(S, n - 1), x \in S}

SeqsUpTo(S, n) == UNION {SeqsOfLen(S, k) : k \in 0..n}

ScenarioArr == <<1, 2, 3, 4, 5>>

MAIdle == arr = <<>> /\ window_size = 0 /\ padded_arr = <<>> /\ moving_avg = <<>>

ApIdle == df = NULL /\ features = <<>> /\ timesteps = 0 /\ label = FALSE /\ res = NULL

PrepIdle ==
    /\ files = NULL /\ pvs_df_left = NULL /\ pvs_df_right = NULL
    /\ pvs_labels = NULL /\ pvs_df = NULL

InitMA ==
    /\ pc = "ma_pad"
    /\ raised = "none"
    /\ arr \in SeqsUpTo(1..MaxVal, MaxLen) \cup {ScenarioArr}
    /\ window_size \in (-1)..MaxWindow
    /\ padded_arr = <<>>
    /\ moving_avg = <<>>
    /\ ret = NULL
    /\ ApIdle
    /\ PrepIdle

\* line 72: a negative pad width or a non-zero pad of an empty array raises
MAPad ==
    /\ pc = "ma_pad"
    /\ LET p == window_size \div 2 IN
         IF p < 0 \/ (Len(arr) = 0 /\ p > 0)
         THEN /\ raised' = "ValueError"
              /\ pc' = "ma_done"
              /\ UNCHANGED padded_arr
         ELSE /\ padded_arr' = AsRats(NpPadReflect(arr, p))
              /\ pc' = "ma_convolve"
              /\ UNCHANGED raised
    /\ UNCHANGED <<arr, window_size, moving_avg, ret, apVars, prepVars>>

\* line 73: np.convolve raises when either operand is empty
MAConvolve ==
    /\ pc = "ma_convolve"
    /\ IF Len(padded_arr) = 0 \/ window_size = 0
       THEN /\ raised' = "ValueError"
            /\ pc' = "ma_done"
            /\ UNCHANGED moving_avg
       ELSE /\ moving_avg' = NpConvolveValid(padded_arr, UniformKernel(window_size))
            /\ pc' = "ma_return"
            /\ UNCHANGED raised
    /\ UNCHANGED <<arr, window_size, padded_arr, ret, apVars, prepVars>>

\* line 74
MAReturn ==
    /\ pc = "ma_return"
    /\ ret' = DropLast(moving_avg)
    /\ pc' = "ma_done"
    /\ UNCHANGED <<raised, arr, window_size, padded_arr, moving_avg, apVars, prepVars>>

NextMA == MAPad \/ MAConvolve \/ MAReturn

SpecMA == InitMA /\ [][NextMA]_vars

\* the call returned a sequence (no exception)
MAReturned == pc = "ma_done" /\ raised = "none"

\* index into arr (0-based) of position j of the reflection of arr about its
\* two end points, the end points themselves not being repeated
ReflectIndex(j, n) ==
    IF n = 1 THEN 0
    ELSE LET m == j % (2 * (n - 1)) IN IF m < n THEN m ELSE 2 * (n - 1) - m

\* arr reflect-padded by h on each side, as the specification describes it
ReflectPadded(a, h) == [k \in 1..(Len(a) + 2 * h) |-> a[ReflectIndex(k - 1 - h, Len(a)) + 1]]

WindowMean(s, i, w) == Rat(SumSeq(SubSeq(s, i, i + w - 1)), w)

\* C2 (as stated): whenever moving_average returns for a positive
\* window_size, the result has len(arr) - 1 elements for an odd window_size
\* and len(arr) - 2 elements for an even one.
C2_LengthAsStated ==
    (MAReturned /\ window_size > 0) =>
        Len(ret) = IF window_size % 2 = 1 THEN Len(arr) - 1 ELSE Len(arr) - 2

\* C2 (amended): whenever moving_average returns for a positive window_size,
\* the result has len(arr) - 1 elements for an odd window_size and len(arr)
\* elements for an even one.
C2_Length ==
    (MAReturned /\ window_size > 0) =>
        Len(ret) = IF window_size % 2 = 1 THEN Len(arr) - 1 ELSE Len(arr)

C2_Witness ==
    MAReturned /\ window_size > 0 /\ window_size % 2 = 0 /\ Len(arr) >= 2
        /\ Len(ret) = Len(arr)

\* C6: element i of the result is the mean of elements i .. i+window_size-1
\* of arr reflect-padded by window_size // 2 on each side, the last element
\* of the valid convolution being dropped; arr = [1,2,3,4,5] with
\* window_size = 3 is padded to [2,1,2,3,4,5,4] and gives [5/3, 2, 3, 4].
C6_MovingAverageValues ==
    MAReturned =>
        LET h == window_size \div 2
            P == ReflectPadded(arr, h)
        IN /\ Len(ret) = (Len(P) - window_size + 1) - 1
           /\ \A i \in 1..Len(ret) : ret[i] = WindowMean(P, i, window_size)
           /\ (arr = ScenarioArr /\ window_size = 3) =>
                 /\ padded_arr = AsRats(<<2, 1, 2, 3, 4, 5, 4>>)
                 /\ moving_avg = <<<<5, 3>>, <<2, 1>>, <<3, 1>>, <<4, 1>>, <<13, 3>>>>
                 /\ ret = <<<<5, 3>>, <<2, 1>>, <<3, 1>>, <<4, 1>>>>

C6_Witness ==
    MAReturned /\ arr = ScenarioArr /\ window_size = 3 /\ Len(ret) = 4

\* ---------------------------------------------------------- dataframe helpers
\* A dataframe is [columns |-> sequence of names, rows |-> sequence of
\* records]; a nullable integer cell is <<k>>, or <<>> for NULL.
Table(cols, rows) == [columns |-> cols, rows |-> rows]

Range(s) == {s[i] : i \in DOMAIN s}

\* DataFrame.withColumn(name, expr): adds the column, or replaces it in
\* place; vals[i] is the value of expr on row i
WithColumn(t, name, vals) ==
    Table(IF name \in Range(t.columns) THEN t.columns ELSE Append(t.columns, name),
          [i \in DOMAIN t.rows |->
              [c \in DOMAIN t.rows[i] \cup {name} |->
                  IF c = name THEN vals[i] ELSE t.rows[i][c]]])

\* DataFrame.orderBy('timestep') on a set of result rows (integer timestep)
RECURSIVE OrderByTimestep(_)
OrderByTimestep(S) ==
    IF S = {} THEN <<>>
    ELSE LET m == CHOOSE r \in S : \A q \in S : r.timestep <= q.timestep
         IN <<m>> \o OrderByTimestep(S \ {m})

\* ------------------------------------------------------------ approximate_ts
\* faulty variant: the quotient is rounded up
RoundUpDiv(a, b) == (a + b - 1) \div b

\* cast('integer') of a double: truncation toward zero
TruncDiv(a, b) ==
    IF (a >= 0) = (b > 0) THEN Abs(a) \div Abs(b) ELSE -(Abs(a) \div Abs(b))

\* (F.col('timestep') / timesteps).cast('integer'); with ANSI mode off a
\* division by zero is NULL
GroupByExpr(row, ts) == IF ts = 0 THEN <<>> ELSE <<TruncDiv(row.timestep, ts)>>

Column(rows, col) == [i \in DOMAIN rows |-> rows[i][col]]

MaxOf(s) == CHOOSE v \in Range(s) : \A u \in Range(s) : u <= v

MinOf(s) == CHOOSE v \in Range(s) : \A u \in Range(s) : v <= u

\* F.max, F.avg, F.sum, F.count over the (non-empty, non-null) column of a group
AggValue(fn, col, rows) ==
    CASE fn = "max" -> MaxOf(Column(rows, col))
      [] fn = "avg" -> Rat(SumSeq(Column(rows, col)), Len(rows))
      [] fn = "sum" -> SumSeq(Column(rows, col))
      [] fn = "count" -> Len(rows)

\* F.mode: the most frequent non-null values of the group (NULL if none);
\* which of several equally frequent values is returned is not determined
Occurrences(rows, col, v) == Cardinality({i \in DOMAIN rows : rows[i][col] = v})

ModeSet(rows, col) ==
    LET vals == Range(Column(rows, col)) \ {NULL}
    IN IF vals = {} THEN {NULL}
       ELSE {v \in vals : \A u \in vals :
                Occurrences(rows, col, u) <= Occurrences(rows, col, v)}

GroupKeys(t) == {t.rows[i].group_by : i \in DOMAIN t.rows}

GroupRows(t, key) == SelectSeq(t.rows, LAMBDA r : r.group_by = key)

FeatureAliases(fs) == [i \in DOMAIN fs |-> fs[i].alias]

\* faulty variant: road_condition is aggregated whatever label is
AggColumnsAlwaysLabel(lbl, fs) ==
    <<"group_by", "timestep", "road_condition", "latitude", "longitude">>
        \o FeatureAliases(fs)

\* columns of df.groupBy('group_by').agg(...): the grouping column is
\* retained, followed by the aggregates in the order they are listed
AggColumns(lbl, fs) ==
    <<"group_by", "timestep">> \o (IF lbl THEN <<"road_condition">> ELSE <<>>)
        \o <<"latitude", "longitude">> \o FeatureAliases(fs)

\* faulty variant: latitude and longitude aggregate each other's column
AggRowSwapped(key, rows, lbl, fs, modeVal) ==
    [c \in Range(AggColumns(lbl, fs)) |->
        CASE c = "group_by" -> key
          [] c = "timestep" -> AggValue("max", "timestep", rows)
          [] c = "road_condition" -> modeVal
          [] c = "latitude" -> AggValue("avg", "longitude", rows)
          [] c = "longitude" -> AggValue("avg", "latitude", rows)
          [] OTHER -> LET f == CHOOSE g \in Range(fs) : g.alias = c
                      IN AggValue(f.fn, f.col, rows)]

\* faulty variant: timestep is the smallest timestep of the group
AggRowMinTimestep(key, rows, lbl, fs, modeVal) ==
    [c \in Range(AggColumns(lbl, fs)) |->
        CASE c = "group_by" -> key
          [] c = "timestep" -> MinOf(Column(rows, "timestep"))
          [] c = "road_condition" -> modeVal
          [] c = "latitude" -> AggValue("avg", "latitude", rows)
          [] c = "longitude" -> AggValue("avg", "longitude", rows)
          [] OTHER -> LET f == CHOOSE g \in Range(fs) : g.alias = c
                      IN AggValue(f.fn, f.col, rows)]

\* one result row of the aggregation, for the group with the given key
AggRow(key, rows, lbl, fs, modeVal) ==
    [c \in Range(AggColumns(lbl, fs)) |->
        CASE c = "group_by" -> key
          [] c = "timestep" -> AggValue("max", "timestep", rows)
          [] c = "road_condition" -> modeVal
          [] c = "latitude" -> AggValue("avg", "latitude", rows)
          [] c = "longitude" -> AggValue("avg", "longitude", rows)
          [] OTHER -> LET f == CHOOSE g \in Range(fs) : g.alias = c
                      IN AggValue(f.fn, f.col, rows)]

\* ---- inputs
DfColumns == <<"timestep", "latitude", "longitude", "x", "road_condition">>

RowKinds ==
    { [latitude |-> 1, longitude |-> 7, x |-> 0, road_condition |-> "good"],
      [latitude |-> 2, longitude |-> 7, x |-> 3, road_condition |-> "regular"],
      [latitude |-> 1, longitude |-> 8, x |-> 3, road_condition |-> "bad"],
      [latitude |-> 2, longitude |-> 8, x |-> 0, road_condition |-> "bad"],
      [latitude |-> 2, longitude |-> 7, x |-> 0, road_condition |-> NULL] }

\* tables of n rows whose timestep column is 0 .. n-1, in that order
InputRows(n) ==
    {[i \in 1..n |-> [c \in Range(DfColumns) |->
                        IF c = "timestep" THEN i - 1 ELSE k[i][c]]] :
        k \in SeqsOfLen(RowKinds, n)}

FeatureLists ==
    { <<[fn |-> "avg", col |-> "x", alias |-> "avg(x)"]>>,
      <<[fn |-> "max", col |-> "x", alias |-> "max(x)"],
        [fn |-> "count", col |-> "x", alias |-> "count(x)"]>> }

InitAp ==
    /\ pc = "ap_group_by"
    /\ raised = "none"
    /\ \E n \in 0..MaxN : \E rows \in InputRows(n) : df = Table(DfColumns, rows)
    /\ features \in FeatureLists
    /\ timesteps \in (-2)..MaxTimesteps
    /\ label \in BOOLEAN
    /\ res = NULL
    /\ ret = NULL
    /\ MAIdle
    /\ PrepIdle

\* line 59.  With ANSI mode on, a division by zero raises instead (when the
\* plan is evaluated on at least one row).
ApGroupBy ==
    /\ pc = "ap_group_by"
    /\ \/ /\ df' = WithColumn(df, "group_by",
                           [i \in DOMAIN df.rows |-> GroupByExpr(df.rows[i], timesteps)])
          /\ pc' = "ap_agg"
          /\ UNCHANGED raised
       \/ /\ timesteps = 0
          /\ Len(df.rows) > 0
          /\ raised' = "ArithmeticException"
          /\ pc' = "ap_done"
          /\ UNCHANGED df
    /\ UNCHANGED <<features, timesteps, label, res, ret, maVars, prepVars>>

\* lines 62-64
ApAggLabel ==
    /\ pc = "ap_agg"
    /\ label
    /\ \E m \in [GroupKeys(df) -> {"good", "regular", "bad", NULL}] :
          /\ \A k \in GroupKeys(df) : m[k] \in ModeSet(GroupRows(df, k), "road_condition")
          /\ res' = Table(AggColumns(label, features),
                          OrderByTimestep({AggRow(k, GroupRows(df, k), label, features, m[k]) :
                                      k \in GroupKeys(df)}))
    /\ pc' = "ap_return"
    /\ UNCHANGED <<raised, df, features, timesteps, label, ret, maVars, prepVars>>

\* lines 65-66
ApAggNoLabel ==
    /\ pc = "ap_agg"
    /\ ~label
    /\ res' = Table(AggColumns(label, features),
                    OrderByTimestep({AggRow(k, GroupRows(df, k), label, features, NULL) :
                                k \in GroupKeys(df)}))
    /\ pc' = "ap_return"
    /\ UNCHANGED <<raised, df, features, timesteps, label, ret, maVars, prepVars>>

\* line 67
ApReturn ==
    /\ pc = "ap_return"
    /\ ret' = res
    /\ pc' = "ap_done"
    /\ UNCHANGED <<raised, apVars, maVars, prepVars>>

NextAp == ApGroupBy \/ ApAggLabel \/ ApAggNoLabel \/ ApReturn

SpecAp == InitAp /\ [][NextAp]_vars

\* the call returned a table
ApReturned == pc = "ap_done" /\ raised = "none"

N == Len(df.rows)

Min(a, b) == IF a < b THEN a ELSE b

\* rows (by position) of the input that fall in window k
Window(k) == {i \in 1..N : df.rows[i].group_by = <<k>>}

WindowTimesteps(k) == {df.rows[i].timestep : i \in Window(k)}

\* C1: for an input of N rows with timestep 0..N-1 and timesteps >= 1 the
\* result has ceil(N / timesteps) rows, one per distinct value of
\* floor(timestep / timesteps); an empty input gives an empty result.
C1_RowCount ==
    (ApReturned /\ timesteps >= 1) =>
        /\ Len(ret.rows) = (N + timesteps - 1) \div timesteps
        /\ Len(ret.rows) = Cardinality({(i - 1) \div timesteps : i \in 1..N})
        /\ (N = 0 => ret.rows = <<>>)

C1_Witness ==
    ApReturned /\ timesteps = 2 /\ N = 3 /\ Len(ret.rows) = 2

\* C5: for timesteps = 1 the result equals the input up to column selection:
\* row i has timestep i, the latitude, longitude and (when kept) the
\* road_condition of input row i, and every mean-aggregated feature equals
\* the input row's value.
C5_IdentityForOne ==
    (ApReturned /\ timesteps = 1) =>
        /\ Len(ret.rows) = N
        /\ \A i \in 1..N :
              /\ ret.rows[i].timestep = i - 1
              /\ ret.rows[i].timestep = df.rows[i].timestep
              /\ ret.rows[i].latitude = Rat(df.rows[i].latitude, 1)
              /\ ret.rows[i].longitude = Rat(df.rows[i].longitude, 1)
              /\ (label => ret.rows[i].road_condition = df.rows[i].road_condition)
              /\ \A f \in Range(features) :
                    f.fn = "avg" => ret.rows[i][f.alias] = Rat(df.rows[i][f.col], 1)

C5_Witness ==
    /\ ApReturned /\ timesteps = 1 /\ N >= 2 /\ label
    /\ \E f \in Range(features) : f.fn = "avg"
    /\ Len(ret.rows) = N

\* C7: approximate_ts called with timesteps <= 0 ends with an
\* InvalidArgument error and returns no table.
C7_FailsFast ==
    (pc = "ap_done" /\ timesteps <= 0) => (raised = "InvalidArgument" /\ ret = NULL)

\* C8: for timestep 0..N-1 and timesteps >= 1 the rows are partitioned into
\* contiguous windows: every row is in exactly one window, every window but
\* the last has timesteps rows, the last has N mod timesteps rows (timesteps
\* if that is zero), and output row k carries the largest timestep of
\* window k, min((k+1)*timesteps - 1, N-1).
C8_Windows ==
    (ApReturned /\ timesteps >= 1) =>
        LET K == Len(ret.rows) IN
        /\ \A i \in 1..N : Cardinality({k \in 0..(K - 1) : i \in Window(k)}) = 1
        /\ \A k \in 0..(K - 1) :
              /\ WindowTimesteps(k) =
                    (k * timesteps)..Min((k + 1) * timesteps - 1, N - 1)
              /\ Cardinality(Window(k)) =
                    IF k < K - 1 \/ N % timesteps = 0 THEN timesteps ELSE N % timesteps
              /\ ret.rows[k + 1].timestep = Min((k + 1) * timesteps - 1, N - 1)
              /\ \A t \in WindowTimesteps(k) : t <= ret.rows[k + 1].timestep
        /\ \A j \in 1..(K - 1) : ret.rows[j].timestep < ret.rows[j + 1].timestep

C8_Witness ==
    /\ ApReturned /\ timesteps = 2 /\ N = 3
    /\ Cardinality(Window(0)) = 2 /\ Cardinality(Window(1)) = 1
    /\ ret.rows[1].timestep = 1 /\ ret.rows[2].timestep = 2

FeatureAliasSet == {features[i].alias : i \in DOMAIN features}

SensorColumns ==
    <<"timestamp", "acc_x", "timestamp_gps", "latitude", "longitude", "speed">>

IndicatorColumns ==
    <<"good_road_left", "good_road_right", "regular_road_left",
      "regular_road_right", "bad_road_left", "bad_road_right">>

LabelColumns == <<"paved_road">> \o IndicatorColumns

\* F.monotonically_increasing_id(): the partition index in the upper 31 bits
\* and the position inside the partition in the lower 33 bits, kept as the
\* pair <<partition, position>>.  Rows 1..split of the table are in partition
\* 0, the others in partition 1.
MonotonicallyIncreasingId(i, split) ==
    IF i <= split THEN <<0, i - 1>> ELSE <<1, i - 1 - split>>

Splits(n) == IF n = 0 THEN {0} ELSE 1..n

\* order of two ids as 64-bit integers
IdLess(a, b) == a[1] < b[1] \/ (a[1] = b[1] /\ a[2] < b[2])

\* df.withColumn('timestep', F.monotonically_increasing_id())
WithTimestep(t, split) ==
    WithColumn(t, "timestep",
               [i \in DOMAIN t.rows |-> MonotonicallyIncreasingId(i, split)])

\* lines 26-27
JoinKeys == <<"timestep", "latitude", "longitude", "speed">>

Colnames(cols, suffix) ==
    [i \in DOMAIN cols |->
        IF cols[i] \notin Range(JoinKeys) THEN cols[i] \o suffix ELSE cols[i]]

IndexOf(s, x) == CHOOSE i \in DOMAIN s : s[i] = x

\* df.toDF(*names): columns renamed by position
ToDF(t, names) ==
    Table(names,
          [i \in DOMAIN t.rows |->
              [c \in Range(names) |-> t.rows[i][t.columns[IndexOf(names, c)]]]])

\* df.select(cols)
Select(t, cols) ==
    Table(cols, [i \in DOMAIN t.rows |-> [c \in Range(cols) |-> t.rows[i][c]]])

\* df.drop(*names): names that are not columns are ignored
Drop(t, names) ==
    LET kept == SelectSeq(t.columns, LAMBDA c : c \notin names)
    IN Select(t, kept)

\* SQL three-valued logic: "true", "false" or NULL
CastInt(cell) == IF cell = "1" THEN 1 ELSE 0

SqlEqInt(cell, n) ==
    IF cell = NULL THEN NULL
    ELSE IF CastInt(cell) = n THEN "true" ELSE "false"

\* faulty variant: NULL absorbs TRUE
SqlOrStrict(a, b) ==
    IF a = NULL \/ b = NULL THEN NULL
    ELSE IF a = "true" \/ b = "true" THEN "true" ELSE "false"

\* a | b
SqlOr(a, b) ==
    IF a = "true" \/ b = "true" THEN "true"
    ELSE IF a = NULL \/ b = NULL THEN NULL ELSE "false"

\* lines 34-36: F.when(...).when(...).otherwise('good')
Cond(r) ==
    IF SqlOr(SqlEqInt(r.bad_road_left, 1), SqlEqInt(r.bad_road_right, 1)) = "true"
    THEN "bad"
    ELSE IF SqlOr(SqlEqInt(r.regular_road_left, 1),
                  SqlEqInt(r.regular_road_right, 1)) = "true"
    THEN "regular"
    ELSE "good"

\* equality of a join key: NULL equals nothing (timestep is never NULL)
KeyEq(c, a, b) == IF c = "timestep" THEN a = b ELSE a # NULL /\ b # NULL /\ a = b

Matches(l, r, on) == \A c \in Range(on) : KeyEq(c, l[c], r[c])

JoinColumns(lt, rt, on) ==
    on \o SelectSeq(lt.columns, LAMBDA c : c \notin Range(on))
       \o SelectSeq(rt.columns, LAMBDA c : c \notin Range(on))

JoinedRow(l, r, cols) ==
    [c \in cols |-> IF c \in DOMAIN l THEN l[c] ELSE r[c]]

UnmatchedRow(l, cols) ==
    [c \in cols |-> IF c \in DOMAIN l THEN l[c] ELSE NULL]

\* rows of the join for left row l: one per matching right row, or, in a
\* left join, l padded with NULLs when nothing matches
RowsFor(l, rt, on, cols, how) ==
    LET ms == SelectSeq(rt.rows, LAMBDA r : Matches(l, r, on))
    IN IF Len(ms) = 0
       THEN (IF how = "left" THEN <<UnmatchedRow(l, cols)>> ELSE <<>>)
       ELSE [k \in DOMAIN ms |-> JoinedRow(l, ms[k], cols)]

RECURSIVE JoinRows(_, _, _, _, _, _)
JoinRows(lt, rt, on, cols, how, i) ==
    IF i > Len(lt.rows) THEN <<>>
    ELSE RowsFor(lt.rows[i], rt, on, cols, how)
            \o JoinRows(lt, rt, on, cols, how, i + 1)

\* faulty variant: how='inner'
InnerJoin(lt, rt, on) ==
    LET cols == JoinColumns(lt, rt, on)
    IN Table(cols, JoinRows(lt, rt, on, Range(cols), "inner", 1))

\* lt.join(rt, on=on, how='left')
LeftJoin(lt, rt, on) ==
    LET cols == JoinColumns(lt, rt, on)
    IN Table(cols, JoinRows(lt, rt, on, Range(cols), "left", 1))

\* the orders in which the engine may deliver the rows of a join
DeliveryOrders(s) ==
    {[i \in DOMAIN s |-> s[f[i]]] :
        f \in {g \in [DOMAIN s -> DOMAIN s] : \A i, j \in DOMAIN s : i # j => g[i] # g[j]}}

\* df.orderBy('timestep') on rows whose timestep is an id
RECURSIVE SortByTimestep(_)
SortByTimestep(rows) ==
    IF rows = <<>> THEN <<>>
    ELSE LET m == CHOOSE i \in DOMAIN rows :
                    \A j \in DOMAIN rows : ~IdLess(rows[j].timestep, rows[i].timestep)
         IN <<rows[m]>>
              \o SortByTimestep([k \in 1..(Len(rows) - 1) |->
                                    IF k < m THEN rows[k] ELSE rows[k + 1]])

\* faulty variant: the rows stay in the order the join delivered them
Unsorted(t) == t

OrderByTimestepId(t) == Table(t.columns, SortByTimestep(t.rows))

\* ---- inputs
KeyKinds ==
    { [latitude |-> "a", longitude |-> "b", speed |-> "c"],
      [latitude |-> NULL, longitude |-> "b", speed |-> "d"] }

SensorRow(k, side) ==
    [c \in Range(SensorColumns) |->
        CASE c = "timestamp" -> "t"
          [] c = "acc_x" -> side
          [] c = "timestamp_gps" -> "g"
          [] OTHER -> k[c]]

SensorFiles(side) ==
    {[i \in DOMAIN ks |-> SensorRow(ks[i], side)] : ks \in SeqsUpTo(KeyKinds, MaxRows)}

LabelRow(g) ==
    [c \in Range(LabelColumns) |-> IF c = "paved_road" THEN "1" ELSE g[c]]

IndicatorRows == [Range(IndicatorColumns) -> {"0", "1", NULL}]

ScenarioLabels ==
    [c \in Range(IndicatorColumns) |->
        IF c \in {"bad_road_right", "regular_road_left"} THEN "1" ELSE "0"]

AllGoodLabels ==
    [c \in Range(IndicatorColumns) |->
        IF c \in {"good_road_left", "good_road_right"} THEN "1" ELSE "0"]

LabelFiles ==
    {[i \in DOMAIN gs |-> LabelRow(gs[i])] :
        gs \in SeqsUpTo({ScenarioLabels, AllGoodLabels}, MaxRows)}

\* either three small files of any lengths, or one-row files whose label
\* row is any combination of the six indicators
InitPrep ==
    /\ pc = "prep_read"
    /\ raised = "none"
    /\ \/ \E l \in SensorFiles("l"), r \in SensorFiles("r"), y \in LabelFiles :
             files = [left |-> l, right |-> r, labels |-> y]
       \/ \E g \in IndicatorRows, k \in KeyKinds :
             files = [left |-> <<SensorRow(k, "l")>>,
                      right |-> <<SensorRow(k, "r")>>,
                      labels |-> <<LabelRow(g)>>]
    /\ pvs_df_left = NULL /\ pvs_df_right = NULL
    /\ pvs_labels = NULL /\ pvs_df = NULL
    /\ ret = NULL
    /\ MAIdle
    /\ ApIdle

\* lines 16-18
PrepRead ==
    /\ pc = "prep_read"
    /\ pvs_df_left' = Table(SensorColumns, files.left)
    /\ pvs_df_right' = Table(SensorColumns, files.right)
    /\ pvs_labels' = Table(LabelColumns, files.labels)
    /\ pc' = "prep_timestep"
    /\ UNCHANGED <<raised, files, pvs_df, ret, maVars, apVars>>

\* lines 21-23: each table is numbered according to its own partitioning
PrepTimestep ==
    /\ pc = "prep_timestep"
    /\ \E sl \in Splits(Len(pvs_df_left.rows)),
          sr \in Splits(Len(pvs_df_right.rows)),
          sy \in Splits(Len(pvs_labels.rows)) :
          /\ pvs_df_left' = WithTimestep(pvs_df_left, sl)
          /\ pvs_df_right' = WithTimestep(pvs_df_right, sr)
          /\ pvs_labels' = WithTimestep(pvs_labels, sy)
    /\ pc' = "prep_labels"
    /\ UNCHANGED <<raised, files, pvs_df, ret, maVars, apVars>>

\* lines 33-38
PrepLabels ==
    /\ pc = "prep_labels"
    /\ pvs_labels' =
          LET selected == Select(pvs_labels, <<"timestep">> \o IndicatorColumns)
          IN Select(WithColumn(selected, "road_condition",
                               [i \in DOMAIN selected.rows |-> Cond(selected.rows[i])]),
                    <<"timestep", "road_condition">>)
    /\ pc' = "prep_rename"
    /\ UNCHANGED <<raised, files, pvs_df_left, pvs_df_right, pvs_df, ret, maVars, apVars>>

\* lines 26-27 and 41-42
PrepRename ==
    /\ pc = "prep_rename"
    /\ pvs_df_left' = ToDF(pvs_df_left, Colnames(pvs_df_left.columns, "_L"))
    /\ pvs_df_right' = ToDF(pvs_df_right, Colnames(pvs_df_right.columns, "_R"))
    /\ pc' = "prep_join"
    /\ UNCHANGED <<raised, files, pvs_labels, pvs_df, ret, maVars, apVars>>

\* line 46
PrepJoin ==
    /\ pc = "prep_join"
    /\ LET joined == LeftJoin(LeftJoin(pvs_df_left, pvs_df_right, JoinKeys),
                              pvs_labels, <<"timestep">>)
       IN \E rows \in DeliveryOrders(joined.rows) :
             pvs_df' = OrderByTimestepId(Table(joined.columns, rows))
    /\ pc' = "prep_drop"
    /\ UNCHANGED <<raised, files, pvs_df_left, pvs_df_right, pvs_labels, ret, maVars, apVars>>

\* lines 47-49
PrepDropReturn ==
    /\ pc = "prep_drop"
    /\ pvs_df' = Drop(pvs_df, {"timestamp_L", "timestamp_R",
                               "timestamp_gps_L", "timestamp_gps_R"})
    /\ ret' = pvs_df'
    /\ pc' = "prep_done"
    /\ UNCHANGED <<raised, files, pvs_df_left, pvs_df_right, pvs_labels, maVars, apVars>>

NextPrep ==
    PrepRead \/ PrepTimestep \/ PrepLabels \/ PrepRename \/ PrepJoin \/ PrepDropReturn

SpecPrep == InitPrep /\ [][NextPrep]_vars

PrepReturned == pc = "prep_done" /\ raised = "none"

\* the road condition the three-way precedence assigns to a label row
Precedence(g) ==
    IF g.bad_road_left = "1" \/ g.bad_road_right = "1" THEN "bad"
    ELSE IF g.regular_road_left = "1" \/ g.regular_road_right = "1" THEN "regular"
    ELSE "good"

LabelsDerived == pc \in {"prep_rename", "prep_join", "prep_drop", "prep_done"}

\* C3: for every combination of the six indicators (each 0, 1 or absent) the
\* derived road_condition is exactly one of good/regular/bad: 'bad' if a
\* bad_road_* indicator is 1, otherwise 'regular' if a regular_road_*
\* indicator is 1, otherwise 'good'; the good_road_* indicators play no part,
\* and bad_road_right = 1 with regular_road_left = 1 gives 'bad'.
C3_RoadCondition ==
    LabelsDerived =>
        /\ Len(pvs_labels.rows) = Len(files.labels)
        /\ \A i \in DOMAIN files.labels :
              /\ pvs_labels.rows[i].road_condition \in {"good", "regular", "bad"}
              /\ pvs_labels.rows[i].road_condition = Precedence(files.labels[i])
              /\ (\A c \in Range(IndicatorColumns) :
                     files.labels[i][c] = ScenarioLabels[c])
                   => pvs_labels.rows[i].road_condition = "bad"

C3_Witness ==
    /\ pc = "prep_done"
    /\ Len(files.labels) = 1
    /\ files.labels[1].bad_road_left = NULL
    /\ files.labels[1].bad_road_right = "1"
    /\ files.labels[1].regular_road_left = "1"
    /\ files.labels[1].good_road_left = "1"
    /\ pvs_labels.rows[1].road_condition = "bad"
    /\ ret.rows[1].road_condition = "bad"

\* the three files have as many rows and the shared fields of the left and
\* right files agree row by row
Aligned ==
    /\ Len(files.left) = Len(files.right)
    /\ Len(files.left) = Len(files.labels)
    /\ \A i \in DOMAIN files.left :
          \A c \in {"latitude", "longitude", "speed"} :
              files.left[i][c] = files.right[i][c]

OutputRowsAt(t) == {j \in DOMAIN ret.rows : ret.rows[j].timestep = t}

Ascending ==
    \A j \in 1..(Len(ret.rows) - 1) :
        IdLess(ret.rows[j].timestep, ret.rows[j + 1].timestep)

\* C4: when the three files have equal row counts and the shared fields of
\* left and right agree at every row, the result has as many rows as the
\* left file, exactly one per left timestep, in ascending timestep order.
C4_RowCountAligned ==
    (PrepReturned /\ Aligned) =>
        /\ Len(ret.rows) = Len(files.left)
        /\ \A i \in DOMAIN pvs_df_left.rows :
              Cardinality(OutputRowsAt(pvs_df_left.rows[i].timestep)) = 1
        /\ Ascending

C4_Witness ==
    /\ PrepReturned /\ Aligned
    /\ Len(files.left) = 2 /\ Len(ret.rows) = 2
    /\ ret.rows[1].timestep = <<0, 0>> /\ ret.rows[2].timestep = <<1, 0>>
    /\ ret.rows[1].acc_x_R = "r"

\* columns of the result that come from the right file only
RightColumns ==
    {c \in Range(ret.columns) :
        c \notin Range(pvs_df_left.columns) /\ c # "road_condition"}

HasRightCounterpart(l) ==
    \E k \in DOMAIN pvs_df_right.rows :
        \A c \in Range(JoinKeys) : pvs_df_right.rows[k][c] = l[c]

HasLabelRow(l) ==
    \E k \in DOMAIN pvs_labels.rows : pvs_labels.rows[k].timestep = l.timestep

\* C10: a left row without an identical (timestep, latitude, longitude,
\* speed) in the right file, or without a label row for its timestep, is
\* neither dropped nor an error: the result keeps exactly one row for it,
\* with the right-side columns NULL in the first case and road_condition
\* NULL in the second, so the result always has as many rows as the left file.
C10_UnmatchedKept ==
    pc = "prep_done" =>
        /\ raised = "none"
        /\ Len(ret.rows) = Len(files.left)
        /\ "acc_x_R" \in RightColumns
        /\ \A i \in DOMAIN pvs_df_left.rows :
              LET l == pvs_df_left.rows[i]
                  out == OutputRowsAt(l.timestep)
              IN /\ Cardinality(out) = 1
                 /\ \A j \in out :
                       /\ ret.rows[j].acc_x_L = l.acc_x_L
                       /\ \A c \in {"latitude", "longitude", "speed"} :
                             ret.rows[j][c] = l[c]
                       /\ ~HasRightCounterpart(l) =>
                             \A c \in RightColumns : ret.rows[j][c] = NULL
                       /\ ~HasLabelRow(l) => ret.rows[j].road_condition = NULL

C10_Witness ==
    /\ PrepReturned
    /\ Len(files.left) = 2 /\ Len(ret.rows) = 2
    /\ ~HasRightCounterpart(pvs_df_left.rows[1])
    /\ ret.rows[1].acc_x_R = NULL
    /\ ~HasLabelRow(pvs_df_left.rows[2])
    /\ ret.rows[2].road_condition = NULL

=============================================================================
